---- MODULE Spec2Model ----
(***************************************************************************)
(* Model of the Ocean Drop Simulator's simulation driver                   *)
(* (src/simulation.js, class OceanSimulation; src/app.js carries an        *)
(* identical copy of the class in its first 139 lines).                    *)
(*                                                                         *)
(* The driver is single-threaded JavaScript: every method call and every   *)
(* timer callback runs to completion, so each is one action.  What a       *)
(* notification callback observes while it runs is recorded in the event   *)
(* it leaves in last.events.                                               *)
(*                                                                         *)
(* The terrain functions of src/app.js (isPointInPolygon, isOnLandPolygon, *)
(* getDistanceToCoast, getTerrainTypeWithDistance) and the driver's        *)
(* calculateTemperature are pure: PureSpec draws a call and its arguments  *)
(* in its initial state and records the result in probe.                   *)
(***************************************************************************)
EXTENDS Integers, Sequences, FiniteSets, TLC

\* ------------------------------------------------------------------ bounds
\* config.totalDays of the driver under test (the code's default is 1825).
MaxDays == 3
\* Most setTimeout callbacks allowed to be pending at once.
MaxTimers == 3
\* Cap on stats.landAttempts, which the code lets grow without limit.
MaxLandAttempts == 101
\* Most points of a coastline stream handed to getDistanceToCoast.
MaxStream == 22

\* --------------------------------------------------------- program constants
\* simulateDay: while (attempts < 100)
MaxAttempts == 100
\* setSpeed: "speedVal 1-100"
MinSpeed == 1
MaxSpeed == 100
\* setSpeed divides speedVal by 100: delays are held in hundredths of a ms.
DelayScale == 100
\* getDistanceToCoast: const step = 10
step == 10
\* src/app.js: const ZONE_COASTAL_KM = 1, ZONE_SHELF_KM = 100, ZONE_FAR_KM = 300
ZONE_COASTAL_KM == 1
ZONE_SHELF_KM == 100
ZONE_FAR_KM == 300
\* JS Infinity.  Distances are whole kilometres and are only compared with <
\* and <=; no distance on Earth reaches this value.
Infinity == 1000000000

totalDays == MaxDays

VARIABLES
    isRunning,    \* this.isRunning
    currentDay,   \* this.currentDay
    drops,        \* this.drops, the drop history
    stats,        \* this.stats
    timers,       \* number of pending setTimeout(() => this.loop()) callbacks
    delay,        \* this.delay, in 1/DelayScale ms
    speedVal,     \* the argument of the last setSpeed call, 0 before the first
    finishCount,  \* onFinish() calls since construction or the last reset()
    classifier,   \* which config.onCheckLand was injected
    last,         \* the last operation: its name, its attempts, its callbacks
    probe         \* the last call of a pure function: arguments and result

vars ==
    <<isRunning, currentDay, drops, stats, timers, delay, speedVal, finishCount,
      classifier, last, probe>>

\* ------------------------------------------------------------- JS numbers
\* stats.coastal is absent from the constructor's object literal, so it reads
\* as undefined there; ++ on undefined or NaN gives NaN.
JSNum(n) == [kind |-> "number", val |-> n]
JSUndefined == [kind |-> "undefined", val |-> 0]
JSNaN == [kind |-> "NaN", val |-> 0]

PlusPlus(v) == IF v.kind = "number" THEN JSNum(v.val + 1) ELSE JSNaN

\* ------------------------------------------------------------- arithmetic
RECURSIVE Factorial(_)
Factorial(n) == IF n <= 1 THEN 1 ELSE n * Factorial(n - 1)

\* avgTemp is kept as an exact rational with denominator Scale: every divisor
\* 1..totalDays the running mean divides by divides Scale.
Scale == Factorial(totalDays)

\* Math.asin(x) in degrees, at the arguments with an exact result.
AsinDeg(x) == CASE x = -1 -> -90 [] x = 0 -> 0 [] x = 1 -> 90

\* 2 * Math.cos(lat degrees), at the latitudes where it is an integer.
CosTimes2(lat) ==
    CASE lat = 0 -> 2
      [] lat = 60 \/ lat = -60 -> 1
      [] lat = 90 \/ lat = -90 -> 0

\* Mutant: a linear drop-off in lat / 90, without Math.abs.
calculateTemperatureLinear(lat) == 30 - (32 * lat) \div 90

calculateTemperature(lat) == -2 + 16 * CosTimes2(lat)

\* ------------------------------------------------------------------ inputs
\* Math.random() draws u, v in [0, 1); the model draws them from {0, 1/2},
\* held as 2u and 2v (lon is stored in the Drop and never read).
URandom == {0, 1}
VRandom == {1}

\* lat = asin(2u - 1) in degrees, lon = 360 v - 180.
SamplePoint(u2, v2) == [lat |-> AsinDeg(u2 - 1), lon |-> 180 * v2 - 180]

\* What onCheckLand returns for a point that is not on land.  The driver
\* compares the type with 'LAND' and 'COASTAL' only, so one other zone stands
\* for SHELF, FAR and DEEP_OCEAN.
WaterAnswers ==
    { [type |-> "COASTAL", distanceKm |-> 1],
      [type |-> "DEEP_OCEAN", distanceKm |-> 1000] }

Classifiers == {"allOcean", "any"}

\* How many attempts in a row the classifier answers LAND before its first
\* other answer.
LandRuns(c) == IF c = "allOcean" THEN {0} ELSE {0, 1, MaxAttempts - 1, MaxAttempts}

Inputs ==
    [landRun : LandRuns(classifier), u2 : URandom, v2 : VRandom, answer : WaterAnswers]

\* ------------------------------------------------------------------ events
NoDrop == <<>>

Event(kind, drop, st, day, drps) ==
    [kind |-> kind, drop |-> drop, stats |-> st, currentDay |-> day, drops |-> drps]

\* ------------------------------------------------------------- the driver
\* constructor: this.stats has no coastal property.
ConstructorStats ==
    [land |-> 0, coastal |-> JSUndefined, water |-> 0, avgTemp |-> 0,
     totalAttempts |-> 0, landAttempts |-> 0]

\* reset(): the object literal assigned to this.stats.
ResetStats ==
    [land |-> 0, coastal |-> JSNum(0), water |-> 0, avgTemp |-> 0,
     totalAttempts |-> 0, landAttempts |-> 0]

\* The driver object while a method runs on it, with what the call has done
\* so far: the callbacks it invoked and the attempts its simulateDay made.
Self ==
    [isRunning |-> isRunning, currentDay |-> currentDay, drops |-> drops,
     stats |-> stats, timers |-> timers, delay |-> delay,
     finishCount |-> finishCount,
     events |-> <<>>, attempts |-> 0, landHits |-> 0]

\* Mutant: the loop guard written attempts <= 100, one attempt too many.
RetryLoopOffByOne(landRun) ==
    IF landRun < MaxAttempts + 1
    THEN [found |-> TRUE, attempts |-> landRun + 1, landAttempts |-> landRun]
    ELSE [found |-> FALSE, attempts |-> MaxAttempts + 1,
          landAttempts |-> MaxAttempts + 1]

\* Mutant: landAttempts++ placed before the LAND test, so the attempt that
\* finds water is counted as a land hit too.
RetryLoopCountsWaterAsLand(landRun) ==
    IF landRun < MaxAttempts
    THEN [found |-> TRUE, attempts |-> landRun + 1, landAttempts |-> landRun + 1]
    ELSE [found |-> FALSE, attempts |-> MaxAttempts, landAttempts |-> MaxAttempts]

\* simulateDay's retry loop (while (attempts < 100)) for a classifier that
\* answers LAND on exactly the first landRun attempts of the tick: the loop
\* leaves at attempt landRun + 1, the first not answered LAND, or runs out
\* after MaxAttempts attempts, all of them answered LAND.
RetryLoop(landRun) ==
    IF landRun < MaxAttempts
    THEN [found |-> TRUE, attempts |-> landRun + 1, landAttempts |-> landRun]
    ELSE [found |-> FALSE, attempts |-> MaxAttempts, landAttempts |-> MaxAttempts]

\* Mutant: only the attempts answered LAND are counted in totalAttempts.
CountAttemptsLandOnly(st, r) ==
    [st EXCEPT !.totalAttempts = @ + r.landAttempts,
               !.landAttempts = @ + r.landAttempts]

\* Mutant: totalAttempts++ placed after the LAND test, behind the continue.
CountAttemptsAfterLandTest(st, r) ==
    [st EXCEPT !.totalAttempts = @ + r.attempts - r.landAttempts,
               !.landAttempts = @ + r.landAttempts]

\* simulateDay: the attempts of the tick counted into this.stats.
CountAttempts(st, r) ==
    [st EXCEPT !.totalAttempts = @ + r.attempts,
               !.landAttempts = @ + r.landAttempts]

\* Mutant: the Drop takes its day before this.currentDay++.
NewDropStaleDay(day, inp) ==
    LET p == SamplePoint(inp.u2, inp.v2)
    IN  [day |-> day - 1, lon |-> p.lon, lat |-> p.lat,
         locationType |-> inp.answer.type,
         distanceKm |-> inp.answer.distanceKm,
         temp |-> calculateTemperature(p.lat)]

\* simulateDay: the Drop built for the first attempt not answered LAND.
NewDrop(day, inp) ==
    LET p == SamplePoint(inp.u2, inp.v2)
    IN  [day |-> day, lon |-> p.lon, lat |-> p.lat,
         locationType |-> inp.answer.type,
         distanceKm |-> inp.answer.distanceKm,
         temp |-> calculateTemperature(p.lat)]

\* Mutant: the running average taken as the mean of the old average and the
\* new temperature.
UpdateStatsHalfway(st, drop, day) ==
    [st EXCEPT
       !.water = @ + 1,
       !.coastal = IF drop.locationType = "COASTAL" THEN PlusPlus(@) ELSE @,
       !.avgTemp = (@ + drop.temp * Scale) \div 2]

\* simulateDay: "Update stats" and the running average, currentDay = day.
UpdateStats(st, drop, day) ==
    [st EXCEPT
       !.water = @ + 1,
       !.coastal = IF drop.locationType = "COASTAL" THEN PlusPlus(@) ELSE @,
       !.avgTemp = @ + ((drop.temp * Scale - @) \div day)]

\* Mutant: this.drops = [drop] in place of this.drops.push(drop).
simulateDayOverwrites(o, inp) ==
    LET r == RetryLoop(inp.landRun)
        counted == CountAttempts(o.stats, r)
        tried == [o EXCEPT !.stats = counted, !.attempts = r.attempts,
                           !.landHits = r.landAttempts]
    IN  IF ~r.found
        THEN tried
        ELSE LET day == o.currentDay + 1
                 drop == NewDrop(day, inp)
                 drps == <<drop>>
                 st == UpdateStats(counted, drop, day)
             IN  [tried EXCEPT
                    !.currentDay = day,
                    !.drops = drps,
                    !.stats = st,
                    !.events = Append(@, Event("onTick", <<drop>>, st, day, drps))]

\* Mutant: a tick that runs out of attempts still notifies, with a null Drop.
simulateDayNotifiesNull(o, inp) ==
    LET r == RetryLoop(inp.landRun)
        counted == CountAttempts(o.stats, r)
        tried == [o EXCEPT !.stats = counted, !.attempts = r.attempts,
                           !.landHits = r.landAttempts]
    IN  IF ~r.found
        THEN [tried EXCEPT
                !.events = Append(@, Event("onTick", NoDrop, counted,
                                           o.currentDay, o.drops))]
        ELSE LET day == o.currentDay + 1
                 drop == NewDrop(day, inp)
                 drps == Append(o.drops, drop)
                 st == UpdateStats(counted, drop, day)
             IN  [tried EXCEPT
                    !.currentDay = day,
                    !.drops = drps,
                    !.stats = st,
                    !.events = Append(@, Event("onTick", <<drop>>, st, day, drps))]

\* Mutant: onTick is called before the statistics of the day are updated.
simulateDayNotifiesEarly(o, inp) ==
    LET r == RetryLoop(inp.landRun)
        counted == CountAttempts(o.stats, r)
        tried == [o EXCEPT !.stats = counted, !.attempts = r.attempts,
                           !.landHits = r.landAttempts]
    IN  IF ~r.found
        THEN tried
        ELSE LET day == o.currentDay + 1
                 drop == NewDrop(day, inp)
                 drps == Append(o.drops, drop)
                 st == UpdateStats(counted, drop, day)
             IN  [tried EXCEPT
                    !.currentDay = day,
                    !.drops = drps,
                    !.stats = st,
                    !.events = Append(@, Event("onTick", <<drop>>, counted,
                                               day, drps))]

simulateDay(o, inp) ==
    LET r == RetryLoop(inp.landRun)
        counted == CountAttempts(o.stats, r)
        tried == [o EXCEPT !.stats = counted, !.attempts = r.attempts,
                           !.landHits = r.landAttempts]
    IN  IF ~r.found
        THEN tried
        ELSE LET day == o.currentDay + 1
                 drop == NewDrop(day, inp)
                 drps == Append(o.drops, drop)
                 st == UpdateStats(counted, drop, day)
             IN  [tried EXCEPT
                    !.currentDay = day,
                    !.drops = drps,
                    !.stats = st,
                    !.events = Append(@, Event("onTick", <<drop>>, st, day, drps))]

\* Mutant: loop() without its first line, if (!this.isRunning) return.
loopNoRunningCheck(o, inp) ==
    IF o.currentDay >= totalDays
    THEN [o EXCEPT
            !.isRunning = FALSE,
            !.finishCount = @ + 1,
            !.events = Append(@, Event("onFinish", NoDrop, o.stats,
                                       o.currentDay, o.drops))]
    ELSE [simulateDay(o, inp) EXCEPT !.timers = @ + 1]

\* Mutant: loop() without its last line, the setTimeout.
loopNoReschedule(o, inp) ==
    IF ~o.isRunning
    THEN o
    ELSE IF o.currentDay >= totalDays
         THEN [o EXCEPT
                 !.isRunning = FALSE,
                 !.finishCount = @ + 1,
                 !.events = Append(@, Event("onFinish", NoDrop, o.stats,
                                            o.currentDay, o.drops))]
         ELSE simulateDay(o, inp)

\* Mutant: the finish branch of loop() without this.isRunning = false.
loopFinishKeepsRunning(o, inp) ==
    IF ~o.isRunning
    THEN o
    ELSE IF o.currentDay >= totalDays
         THEN [o EXCEPT
                 !.finishCount = @ + 1,
                 !.events = Append(@, Event("onFinish", NoDrop, o.stats,
                                            o.currentDay, o.drops))]
         ELSE [simulateDay(o, inp) EXCEPT !.timers = @ + 1]

\* Mutant: loop() finishes on currentDay > totalDays instead of >=.
loopOffByOne(o, inp) ==
    IF ~o.isRunning
    THEN o
    ELSE IF o.currentDay > totalDays
         THEN [o EXCEPT
                 !.isRunning = FALSE,
                 !.finishCount = @ + 1,
                 !.events = Append(@, Event("onFinish", NoDrop, o.stats,
                                            o.currentDay, o.drops))]
         ELSE [simulateDay(o, inp) EXCEPT !.timers = @ + 1]

loop(o, inp) ==
    IF ~o.isRunning
    THEN o
    ELSE IF o.currentDay >= totalDays
         THEN [o EXCEPT
                 !.isRunning = FALSE,
                 !.finishCount = @ + 1,
                 !.events = Append(@, Event("onFinish", NoDrop, o.stats,
                                            o.currentDay, o.drops))]
         ELSE [simulateDay(o, inp) EXCEPT !.timers = @ + 1]

\* Mutant: start() without the test currentDay < totalDays.
startNoDayCheck(o, inp) ==
    IF ~o.isRunning
    THEN loop([o EXCEPT !.isRunning = TRUE], inp)
    ELSE o

\* Mutant: start() defers the first tick to a timer instead of calling loop().
startDeferred(o, inp) ==
    IF ~o.isRunning /\ o.currentDay < totalDays
    THEN [o EXCEPT !.isRunning = TRUE, !.timers = @ + 1]
    ELSE o

start(o, inp) ==
    IF ~o.isRunning /\ o.currentDay < totalDays
    THEN loop([o EXCEPT !.isRunning = TRUE], inp)
    ELSE o

pause(o) == [o EXCEPT !.isRunning = FALSE]

\* this.delay = 200 - ((speedVal / 100) * 199), in 1/DelayScale ms.
setSpeed(o, s) == [o EXCEPT !.delay = 200 * DelayScale - s * 199]

\* Mutant: reset() restores the constructor's statistics object.
resetToConstructorStats(o) ==
    [o EXCEPT
       !.isRunning = FALSE,
       !.currentDay = 0,
       !.drops = <<>>,
       !.stats = ConstructorStats,
       !.finishCount = 0,
       !.events = Append(@, Event("onTick", NoDrop, ConstructorStats, 0, <<>>))]

\* Mutant: reset() without this.drops = [].
resetKeepDrops(o) ==
    [o EXCEPT
       !.isRunning = FALSE,
       !.currentDay = 0,
       !.stats = ResetStats,
       !.finishCount = 0,
       !.events = Append(@, Event("onTick", NoDrop, ResetStats, 0, o.drops))]

\* Mutant: reset() zeroes every counter but totalAttempts.
resetKeepsTotalAttempts(o) ==
    LET st == [ResetStats EXCEPT !.totalAttempts = o.stats.totalAttempts]
    IN  [o EXCEPT
           !.isRunning = FALSE,
           !.currentDay = 0,
           !.drops = <<>>,
           !.stats = st,
           !.finishCount = 0,
           !.events = Append(@, Event("onTick", NoDrop, st, 0, <<>>))]

reset(o) ==
    [o EXCEPT
       !.isRunning = FALSE,
       !.currentDay = 0,
       !.drops = <<>>,
       !.stats = ResetStats,
       !.finishCount = 0,
       !.events = Append(@, Event("onTick", NoDrop, ResetStats, 0, <<>>))]

\* The call returns: the object's fields are the new state.
Returns(o, op) ==
    /\ isRunning' = o.isRunning
    /\ currentDay' = o.currentDay
    /\ drops' = o.drops
    /\ stats' = o.stats
    /\ timers' = o.timers
    /\ delay' = o.delay
    /\ finishCount' = o.finishCount
    /\ last' = [op |-> op, attempts |-> o.attempts, landHits |-> o.landHits,
                events |-> o.events]
    /\ UNCHANGED <<classifier, speedVal, probe>>

\* The cap on stats.landAttempts.
WithinCap(inp) ==
    stats.landAttempts
      + (IF inp.landRun < MaxAttempts THEN inp.landRun ELSE MaxAttempts)
      <= MaxLandAttempts

SimulationInit ==
    /\ isRunning = FALSE
    /\ currentDay = 0
    /\ drops = <<>>
    /\ stats = ConstructorStats
    /\ timers = 0
    /\ delay = 50 * DelayScale
    /\ speedVal = 0
    /\ finishCount = 0
    /\ classifier \in Classifiers
    /\ last = [op |-> "new", attempts |-> 0, landHits |-> 0, events |-> <<>>]

\* No pure function is being called on the driver's side.
Init ==
    /\ SimulationInit
    /\ probe = [fn |-> "none", returned |-> TRUE]

Start ==
    \E inp \in Inputs :
        /\ WithinCap(inp)
        /\ (~isRunning /\ currentDay < totalDays) => timers < MaxTimers
        /\ Returns(start(Self, inp), "start")

Pause ==
    /\ Returns(pause(Self), "pause")

Reset ==
    /\ Returns(reset(Self), "reset")

\* A pending setTimeout callback runs: () => this.loop().
TimerFire ==
    /\ timers > 0
    /\ \E inp \in Inputs :
        /\ WithinCap(inp)
        /\ Returns(loop([Self EXCEPT !.timers = @ - 1], inp), "timer")

\* The speed slider's input handler: sim.setSpeed(e.target.value).
SetSpeed ==
    \E s \in MinSpeed..MaxSpeed :
        /\ speedVal' = s
        /\ delay' = setSpeed(Self, s).delay
        /\ last' = [op |-> "setSpeed", attempts |-> 0, landHits |-> 0,
                    events |-> <<>>]
        /\ UNCHANGED <<isRunning, currentDay, drops, stats, timers, finishCount,
                       classifier, probe>>

Next == Start \/ Pause \/ Reset \/ TimerFire

Spec == Init /\ [][Next]_vars

\* onTick(drop, this.stats) hands the consumer the object this.stats itself,
\* not a copy.  What that object shows after the next step: simulateDay
\* updates this.stats in place, so the consumer's object shows the new values;
\* reset() assigns a new object to this.stats and leaves the old one as it was.
HeldStatsAfterStep == IF last'.op = "reset" THEN stats ELSE stats'

\* A run that is never reset: start, pause and timer firings only.  A timer
\* set with setTimeout does fire.
NextNoReset == Start \/ Pause \/ TimerFire

NoResetSpec == Init /\ [][NextNoReset]_vars /\ WF_vars(TimerFire)

\* A run that is never paused and never reset.
NextRun == Start \/ TimerFire

RunSpec == Init /\ [][NextRun]_vars /\ WF_vars(TimerFire)

\* The speed slider moved on a driver at rest.
NextSpeed == SetSpeed

SpeedSpec == Init /\ [][NextSpeed]_vars

\* ------------------------------------------------- geometry (src/app.js)
\* A point of a ring or of the coastline stream is <<lon, lat>>, in whole
\* degrees.  JS arrays are indexed from 0, sequences from 1: JS index i is
\* position i + 1.

\* lon < (xj - xi) * (lat - yi) / (yj - yi) + xi, the quotient taken exactly.
\* A zero divisor gives JS +Infinity (num > 0), -Infinity or NaN.
LonLeftOfCrossing(lon, xi, num, den) ==
    IF den > 0 THEN (lon - xi) * den < num
    ELSE IF den < 0 THEN (lon - xi) * den > num
    ELSE num > 0

\* Mutant: both operands of the edge test are evaluated (& instead of &&).
EdgeTestEager(lon, lat, pi, pj) ==
    LET xi == pi[1]
        yi == pi[2]
        xj == pj[1]
        yj == pj[2]
        left == LonLeftOfCrossing(lon, xi, (xj - xi) * (lat - yi), yj - yi)
    IN  [toggle |-> ((yi > lat) # (yj > lat)) /\ left,
         divisors |-> <<yj - yi>>]

\* The condition of isPointInPolygon's if for one edge.  && evaluates its
\* right operand, and with it the division, only when the left one is true;
\* divisors lists the divisors the evaluation used.
EdgeTest(lon, lat, pi, pj) ==
    LET xi == pi[1]
        yi == pi[2]
        xj == pj[1]
        yj == pj[2]
    IN  IF (yi > lat) # (yj > lat)
        THEN [toggle |-> LonLeftOfCrossing(lon, xi, (xj - xi) * (lat - yi),
                                           yj - yi),
              divisors |-> <<yj - yi>>]
        ELSE [toggle |-> FALSE, divisors |-> <<>>]

\* The for loop of isPointInPolygon from JS index i on, j its trailing index.
RECURSIVE RayCast(_, _, _, _, _, _)
RayCast(lon, lat, polygon, i, j, acc) ==
    IF ~(i < Len(polygon))
    THEN acc
    ELSE LET e == EdgeTest(lon, lat, polygon[i + 1], polygon[j + 1])
         IN  RayCast(lon, lat, polygon, i + 1, i,
                     [inside |-> IF e.toggle THEN ~acc.inside ELSE acc.inside,
                      divisors |-> acc.divisors \o e.divisors])

isPointInPolygon(lon, lat, polygon) ==
    RayCast(lon, lat, polygon, 0, Len(polygon) - 1,
            [inside |-> FALSE, divisors |-> <<>>])

\* Mutant: the Antarctica test with <= instead of <.
isOnLandPolygonInclusive(lon, lat, landPolygons) ==
    IF lat <= -80
    THEN TRUE
    ELSE \E k \in 1..Len(landPolygons) :
            isPointInPolygon(lon, lat, landPolygons[k]).inside

isOnLandPolygon(lon, lat, landPolygons) ==
    IF lat < -80
    THEN TRUE
    ELSE \E k \in 1..Len(landPolygons) :
            isPointInPolygon(lon, lat, landPolygons[k]).inside

\* coastlineCoords is null until the land data is loaded.
Null == [loaded |-> FALSE, coords |-> <<>>]
Loaded(coords) == [loaded |-> TRUE, coords |-> coords]

\* pointToSegmentDistance is haversine trigonometry on reals.  Its value for
\* the query point and the segment that starts at JS index i is an input,
\* segDist[i \div step], in whole kilometres.
pointToSegmentDistance(segDist, i) == segDist[i \div step]

\* Mutant: the loop of getDistanceToCoast runs while i < length.
RECURSIVE CoastScanToLast(_, _, _, _)
CoastScanToLast(coords, segDist, i, acc) ==
    IF ~(i < Len(coords))
    THEN acc
    ELSE LET j == IF i + step < Len(coords) - 1 THEN i + step
                  ELSE Len(coords) - 1
             dist == pointToSegmentDistance(segDist, i)
         IN  CoastScanToLast(coords, segDist, i + step,
                 [minDist |-> IF dist < acc.minDist THEN dist ELSE acc.minDist,
                  segments |-> Append(acc.segments,
                                      <<coords[i + 1], coords[j + 1]>>)])

getDistanceToCoastToLast(coastlineCoords, segDist) ==
    IF ~coastlineCoords.loaded
    THEN [minDist |-> Infinity, segments |-> <<>>]
    ELSE CoastScanToLast(coastlineCoords.coords, segDist, 0,
                         [minDist |-> Infinity, segments |-> <<>>])

\* The for loop of getDistanceToCoast from JS index i on; segments lists the
\* segments handed to pointToSegmentDistance.
RECURSIVE CoastScan(_, _, _, _)
CoastScan(coords, segDist, i, acc) ==
    IF ~(i < Len(coords) - 1)
    THEN acc
    ELSE LET j == IF i + step < Len(coords) - 1 THEN i + step
                  ELSE Len(coords) - 1
             dist == pointToSegmentDistance(segDist, i)
         IN  CoastScan(coords, segDist, i + step,
                 [minDist |-> IF dist < acc.minDist THEN dist ELSE acc.minDist,
                  segments |-> Append(acc.segments,
                                      <<coords[i + 1], coords[j + 1]>>)])

\* Mutant: without a loaded coastline the distance is 0.
getDistanceToCoastNullIsZero(coastlineCoords, segDist) ==
    IF ~coastlineCoords.loaded
    THEN [minDist |-> 0, segments |-> <<>>]
    ELSE CoastScan(coastlineCoords.coords, segDist, 0,
                   [minDist |-> Infinity, segments |-> <<>>])

getDistanceToCoast(coastlineCoords, segDist) ==
    IF ~coastlineCoords.loaded
    THEN [minDist |-> Infinity, segments |-> <<>>]
    ELSE CoastScan(coastlineCoords.coords, segDist, 0,
                   [minDist |-> Infinity, segments |-> <<>>])

\* Mutant: the zone thresholds are exclusive.
getTerrainTypeExclusive(lon, lat, landPolygons, coastlineCoords, segDist) ==
    LET distKm == getDistanceToCoast(coastlineCoords, segDist).minDist
    IN  IF isOnLandPolygon(lon, lat, landPolygons)
        THEN [type |-> "LAND", distanceKm |-> 0]
        ELSE IF distKm < ZONE_COASTAL_KM
        THEN [type |-> "COASTAL", distanceKm |-> distKm]
        ELSE IF distKm < ZONE_SHELF_KM
        THEN [type |-> "SHELF", distanceKm |-> distKm]
        ELSE IF distKm < ZONE_FAR_KM
        THEN [type |-> "FAR", distanceKm |-> distKm]
        ELSE [type |-> "DEEP_OCEAN", distanceKm |-> distKm]

getTerrainTypeWithDistance(lon, lat, landPolygons, coastlineCoords, segDist) ==
    LET distKm == getDistanceToCoast(coastlineCoords, segDist).minDist
    IN  IF isOnLandPolygon(lon, lat, landPolygons)
        THEN [type |-> "LAND", distanceKm |-> 0]
        ELSE IF distKm <= ZONE_COASTAL_KM
        THEN [type |-> "COASTAL", distanceKm |-> distKm]
        ELSE IF distKm <= ZONE_SHELF_KM
        THEN [type |-> "SHELF", distanceKm |-> distKm]
        ELSE IF distKm <= ZONE_FAR_KM
        THEN [type |-> "FAR", distanceKm |-> distKm]
        ELSE [type |-> "DEEP_OCEAN", distanceKm |-> distKm]

\* ---------------------------------------------- calls of the pure functions
\* Query points, in whole degrees.
Lons == {-5, 0, 5, 10, 50}
Lats == {-85, -81, -80, -5, 0, 5, 10, 50}

\* Rings of <<lon, lat>> vertices: a square, a square inside it, a triangle
\* with slanted edges and a ring across latitude -80.
Square == << <<0, 0>>, <<0, 10>>, <<10, 10>>, <<10, 0>> >>
Inner == << <<2, 2>>, <<2, 8>>, <<8, 8>>, <<8, 2>> >>
Triangle == << <<0, 0>>, <<10, 0>>, <<5, 10>> >>
Polar == << <<-5, -85>>, <<50, -85>>, <<50, -79>>, <<-5, -79>> >>
Rings == {Square, Inner, Triangle, Polar}

\* Values of landPolygons; it is [] until the land data is loaded.
PolygonSets == {<<>>, <<Square>>, <<Square, Inner>>, <<Triangle, Polar>>}

\* A coastline stream of n points.
Stream(n) == [k \in 1..n |-> <<k - 1, 0>>]
Coastlines == {Null} \cup {Loaded(Stream(n)) : n \in 0..MaxStream}

\* Distances of the query point to the segments of the stream.
Blocks == 0..(MaxStream \div step)
SegDists == [Blocks -> {1, 100, 301}]

\* Distances around the zone thresholds, the same for every segment.
ZoneDistances == {0, 1, 2, 100, 101, 300, 301}
ZoneSegDists == {[b \in Blocks |-> d] : d \in ZoneDistances}
ZoneCoastlines == {Null, Loaded(Stream(0)), Loaded(Stream(2))}

\* Latitudes whose cosine is rational.
TempLats == {-90, -60, 0, 60, 90}

\* The driver's state, which a call of a pure function leaves alone.
simulation ==
    <<isRunning, currentDay, drops, stats, timers, delay, speedVal, finishCount,
      classifier, last>>

\* The calls to make: a function and its arguments.  land and distKm are the
\* two answers getTerrainTypeWithDistance works from; calculateTemperature is
\* called at two latitudes.
Calls ==
    {[fn |-> "isPointInPolygon", returned |-> FALSE,
      lon |-> lon, lat |-> lat, polygon |-> polygon] :
        lon \in Lons, lat \in Lats, polygon \in Rings}
    \cup
    {[fn |-> "isOnLandPolygon", returned |-> FALSE,
      lon |-> lon, lat |-> lat, landPolygons |-> landPolygons] :
        lon \in Lons, lat \in Lats, landPolygons \in PolygonSets}
    \cup
    {[fn |-> "getDistanceToCoast", returned |-> FALSE,
      coastlineCoords |-> coastlineCoords, segDist |-> segDist] :
        coastlineCoords \in Coastlines, segDist \in SegDists}
    \cup
    {[fn |-> "getTerrainTypeWithDistance", returned |-> FALSE,
      lon |-> lon, lat |-> lat, landPolygons |-> landPolygons,
      coastlineCoords |-> coastlineCoords, segDist |-> segDist] :
        lon \in Lons, lat \in Lats, landPolygons \in PolygonSets,
        coastlineCoords \in ZoneCoastlines, segDist \in ZoneSegDists}
    \cup
    {[fn |-> "calculateTemperature", returned |-> FALSE,
      lat1 |-> lat1, lat2 |-> lat2] :
        lat1 \in TempLats, lat2 \in TempLats}

\* A fresh driver and one call about to be made.
PureInit ==
    /\ SimulationInit
    /\ probe \in Calls

CallIsPointInPolygon ==
    /\ probe.fn = "isPointInPolygon"
    /\ ~probe.returned
    /\ probe' = [fn |-> probe.fn, returned |-> TRUE,
                 lon |-> probe.lon, lat |-> probe.lat,
                 polygon |-> probe.polygon,
                 result |-> isPointInPolygon(probe.lon, probe.lat,
                                             probe.polygon)]
    /\ UNCHANGED simulation

CallIsOnLandPolygon ==
    /\ probe.fn = "isOnLandPolygon"
    /\ ~probe.returned
    /\ probe' = [fn |-> probe.fn, returned |-> TRUE,
                 lon |-> probe.lon, lat |-> probe.lat,
                 landPolygons |-> probe.landPolygons,
                 result |-> isOnLandPolygon(probe.lon, probe.lat,
                                            probe.landPolygons)]
    /\ UNCHANGED simulation

CallGetDistanceToCoast ==
    /\ probe.fn = "getDistanceToCoast"
    /\ ~probe.returned
    /\ probe' = [fn |-> probe.fn, returned |-> TRUE,
                 coastlineCoords |-> probe.coastlineCoords,
                 segDist |-> probe.segDist,
                 result |-> getDistanceToCoast(probe.coastlineCoords,
                                               probe.segDist)]
    /\ UNCHANGED simulation

CallGetTerrainTypeWithDistance ==
    /\ probe.fn = "getTerrainTypeWithDistance"
    /\ ~probe.returned
    /\ probe' = [fn |-> probe.fn, returned |-> TRUE,
                 lon |-> probe.lon, lat |-> probe.lat,
                 landPolygons |-> probe.landPolygons,
                 coastlineCoords |-> probe.coastlineCoords,
                 land |-> isOnLandPolygon(probe.lon, probe.lat,
                                          probe.landPolygons),
                 distKm |-> getDistanceToCoast(probe.coastlineCoords,
                                               probe.segDist).minDist,
                 result |-> getTerrainTypeWithDistance(probe.lon, probe.lat,
                                probe.landPolygons, probe.coastlineCoords,
                                probe.segDist)]
    /\ UNCHANGED simulation

CallCalculateTemperature ==
    /\ probe.fn = "calculateTemperature"
    /\ ~probe.returned
    /\ probe' = [fn |-> probe.fn, returned |-> TRUE,
                 lat1 |-> probe.lat1, lat2 |-> probe.lat2,
                 temp1 |-> calculateTemperature(probe.lat1),
                 temp2 |-> calculateTemperature(probe.lat2)]
    /\ UNCHANGED simulation

NextPure ==
    \/ CallIsPointInPolygon
    \/ CallIsOnLandPolygon
    \/ CallGetDistanceToCoast
    \/ CallGetTerrainTypeWithDistance
    \/ CallCalculateTemperature

PureSpec == PureInit /\ [][NextPure]_vars

\* ------------------------------------------------------------------ claims
driver == <<isRunning, currentDay, drops, stats, timers, delay, finishCount>>

\* A tick was computed by the last operation: its simulateDay made attempts.
Ticked(l) == l.attempts > 0

\* C1: after reset(), whatever the state it was called in, the driver is not
\* running, currentDay is 0, the history is empty and water, coastal,
\* totalAttempts, landAttempts and avgTemp are all 0.
C1_ResetClears ==
    last.op = "reset" =>
        /\ ~isRunning
        /\ currentDay = 0
        /\ drops = <<>>
        /\ stats.water = 0
        /\ stats.coastal = JSNum(0)
        /\ stats.totalAttempts = 0
        /\ stats.landAttempts = 0
        /\ stats.avgTemp = 0

\* reset() called on a driver that had been started, its tick still pending.
C1_Witness ==
    /\ last.op = "reset"
    /\ timers > 0
    /\ ~isRunning
    /\ currentDay = 0
    /\ stats.coastal = JSNum(0)

\* C2: at most one scheduled tick is outstanding at any time.
C2_SingleTimer == timers <= 1

\* C3: start() makes the driver Running exactly when it was not running with
\* currentDay < totalDays; otherwise (finished, or already running) it changes
\* nothing, schedules no tick and emits no notification.  Nothing but start()
\* makes a driver Running.
C3_Start ==
    [][ /\ last'.op = "start" =>
            IF ~isRunning /\ currentDay < totalDays
            THEN isRunning' /\ timers' = timers + 1
            ELSE /\ UNCHANGED driver
                 /\ last'.events = <<>>
                 /\ ~Ticked(last')
        /\ (~isRunning /\ isRunning') =>
            (last'.op = "start" /\ currentDay < totalDays) ]_vars

\* start() called on a driver that has computed all its days.
C3_Witness ==
    /\ last.op = "start"
    /\ currentDay >= totalDays
    /\ ~isRunning
    /\ last.events = <<>>
    /\ timers = 0

\* C4: while the driver is not running a timer that fires is a no-op: it
\* leaves currentDay, history and statistics alone, emits nothing and sets no
\* further timer; only start() computes a day from a not-running driver.
C4_PausedTickIsNoop ==
    [][ ~isRunning =>
          /\ last'.op = "timer" =>
                /\ UNCHANGED <<isRunning, currentDay, drops, stats, finishCount>>
                /\ last'.events = <<>>
                /\ ~Ticked(last')
                /\ timers' = timers - 1
          /\ (Ticked(last') \/ currentDay' > currentDay) => last'.op = "start" ]_vars

\* The timer of a paused run has fired: half-way through, nothing computed.
C4_Witness ==
    /\ last.op = "timer"
    /\ ~isRunning
    /\ last.events = <<>>
    /\ ~Ticked(last)
    /\ currentDay > 0
    /\ currentDay < totalDays
    /\ timers = 0

\* C5: in a run without reset, once currentDay has reached totalDays the
\* driver eventually is not running with the completion notification emitted.
C5_EventuallyFinishes ==
    (currentDay = totalDays) ~> (~isRunning /\ finishCount > 0)

\* C6: with a classifier that never answers LAND, a started driver that is
\* never paused or reset eventually has currentDay = totalDays, totalDays
\* Drops in its history, is not running and has emitted the completion
\* notification.
C6_RunCompletes ==
    (classifier = "allOcean" /\ isRunning) ~>
        (/\ currentDay = totalDays
         /\ Len(drops) = totalDays
         /\ ~isRunning
         /\ finishCount = 1)

\* The all-ocean run has finished: the last timer emitted onFinish.
C6_Witness ==
    /\ classifier = "allOcean"
    /\ last.op = "timer"
    /\ Len(last.events) = 1
    /\ last.events[1].kind = "onFinish"
    /\ currentDay = totalDays
    /\ Len(drops) = totalDays
    /\ ~isRunning
    /\ finishCount = 1

\* C7: between operations, and in the state every notification callback is
\* invoked in, currentDay is the length of the drop history.
C7_DayIsHistoryLength ==
    /\ currentDay = Len(drops)
    /\ \A i \in 1..Len(last.events) :
          last.events[i].currentDay = Len(last.events[i].drops)

\* A day committed after a reset of a run that had committed days.
C7_Witness ==
    /\ last.op = "timer"
    /\ Len(last.events) = 1
    /\ last.events[1].kind = "onTick"
    /\ last.events[1].currentDay = 2
    /\ currentDay = 2
    /\ Len(drops) = 2
    /\ stats.coastal.kind = "number"

\* C8: a tick whose 100 attempts are all answered LAND leaves currentDay, the
\* history, water, coastal and avgTemp alone, adds exactly 100 to landAttempts
\* and to totalAttempts, leaves the driver Running and schedules the next tick.
C8_ExhaustedTick ==
    [][ last'.landHits >= MaxAttempts =>
          /\ currentDay' = currentDay
          /\ drops' = drops
          /\ stats'.water = stats.water
          /\ stats'.coastal = stats.coastal
          /\ stats'.avgTemp = stats.avgTemp
          /\ stats'.landAttempts = stats.landAttempts + 100
          /\ stats'.totalAttempts = stats.totalAttempts + 100
          /\ isRunning'
          /\ timers' = (IF last'.op = "timer" THEN timers - 1 ELSE timers) + 1
          /\ timers' > 0 ]_vars

\* A timer tick of a run with one day committed ran out of attempts.
C8_Witness ==
    /\ last.op = "timer"
    /\ last.landHits = MaxAttempts
    /\ last.attempts = MaxAttempts
    /\ currentDay = 1
    /\ stats.landAttempts >= 100
    /\ isRunning
    /\ timers > 0

\* The Drop a tick committed: the newest of the history.
NewestDrop == <<drops[Len(drops)]>>

\* C9 as claimed: every tick computed emits exactly one onTick carrying the
\* current statistics, with the new Drop when a day was committed and with
\* null when the tick ran out of attempts.
C9_OneNotificationPerTick ==
    [][ Ticked(last') =>
          /\ Len(last'.events) = 1
          /\ last'.events[1].kind = "onTick"
          /\ last'.events[1].stats = stats'
          /\ last'.events[1].drop =
                (IF currentDay' = currentDay + 1 THEN NewestDrop' ELSE NoDrop) ]_vars

\* C9: every tick that commits a day emits exactly one onTick, carrying the
\* newly committed Drop and the current statistics; a tick that runs out of
\* its 100 attempts emits no notification.
C9_NotificationPerCommittedDay ==
    [][ Ticked(last') =>
          IF currentDay' = currentDay + 1
          THEN /\ Len(last'.events) = 1
               /\ last'.events[1].kind = "onTick"
               /\ last'.events[1].stats = stats'
               /\ last'.events[1].drop = NewestDrop'
          ELSE /\ last'.landHits = MaxAttempts
               /\ last'.events = <<>> ]_vars

\* A tick committed a day after land hits and notified with its Drop.
C9_Witness ==
    /\ Ticked(last)
    /\ last.landHits > 0
    /\ last.landHits < MaxAttempts
    /\ Len(last.events) = 1
    /\ last.events[1].kind = "onTick"
    /\ last.events[1].drop = NewestDrop
    /\ last.events[1].stats = stats

\* A Drop with every field set, for day `day`.
FullyPopulated(drop, day) ==
    /\ DOMAIN drop = {"day", "lon", "lat", "locationType", "distanceKm", "temp"}
    /\ drop.day = day
    /\ drop.lat \in -90..90
    /\ drop.lon \in -180..179
    /\ drop.locationType \in {a.type : a \in WaterAnswers}
    /\ drop.distanceKm >= 0
    /\ drop.temp = calculateTemperature(drop.lat)

\* A tick's day commit, all of it together: the day counter, the Drop at the
\* end of the history, the statistics, and the one callback, which sees them.
DayCommitted ==
    /\ currentDay' = currentDay + 1
    /\ drops' = Append(drops, drops'[Len(drops')])
    /\ FullyPopulated(drops'[Len(drops')], currentDay')
    /\ stats'.water = stats.water + 1
    /\ stats'.coastal =
          (IF drops'[Len(drops')].locationType = "COASTAL"
           THEN PlusPlus(stats.coastal) ELSE stats.coastal)
    /\ stats'.avgTemp * currentDay' =
          stats.avgTemp * currentDay + drops'[Len(drops')].temp * Scale
    /\ stats'.totalAttempts = stats.totalAttempts + last'.attempts
    /\ stats'.landAttempts = stats.landAttempts + last'.attempts - 1
    /\ Len(last'.events) = 1
    /\ last'.events[1] = Event("onTick", NewestDrop', stats', currentDay', drops')

\* C10 as claimed: a tick commits a day, all of it together, or changes
\* nothing of currentDay, history and statistics.
C10_CommitOrNothing ==
    [][ Ticked(last') =>
          \/ DayCommitted
          \/ UNCHANGED <<currentDay, drops, stats>> ]_vars

\* C10: a tick commits a day, all of it together and seen whole by its one
\* onTick callback, or it commits nothing: currentDay, the history, water,
\* coastal and avgTemp stay as they were, no callback runs, and only the
\* attempt counters totalAttempts and landAttempts grow (by 100 each).
C10_CommitOrOnlyAttempts ==
    [][ Ticked(last') =>
          \/ DayCommitted
          \/ /\ UNCHANGED <<currentDay, drops>>
             /\ stats' = [stats EXCEPT !.totalAttempts = @ + MaxAttempts,
                                       !.landAttempts = @ + MaxAttempts]
             /\ last'.events = <<>> ]_vars

\* A COASTAL day was committed on top of an earlier one, after a land hit.
C10_Witness ==
    /\ Ticked(last)
    /\ last.landHits = 1
    /\ currentDay = 2
    /\ Len(drops) = 2
    /\ drops[2].locationType = "COASTAL"
    /\ drops[2].temp # drops[1].temp
    /\ last.events = <<Event("onTick", NewestDrop, stats, currentDay, drops)>>

RECURSIVE SumTemps(_)
SumTemps(drps) ==
    IF drps = <<>> THEN 0 ELSE drps[1].temp + SumTemps(Tail(drps))

\* C11: avgTemp is the arithmetic mean of the temperatures of the Drops in the
\* history, and 0 when the history is empty: avgTemp * currentDay is the sum
\* of the recorded temperatures (avgTemp is held in 1/Scale degrees).
C11_AvgTempIsMean ==
    /\ stats.avgTemp * currentDay = SumTemps(drops) * Scale
    /\ drops = <<>> => stats.avgTemp = 0

\* Three days of unequal temperatures, 30, -2 and -2: the mean is 26/3.
C11_Witness ==
    /\ currentDay = 3
    /\ Len(drops) = 3
    /\ drops[1].temp = 30
    /\ drops[2].temp = -2
    /\ drops[3].temp = -2
    /\ stats.avgTemp * 3 = 26 * Scale

\* C12: the i-th Drop of the history has day i: day numbers are positive,
\* increasing, unique and gap-free, across pause/start cycles and no-op ticks,
\* and start again at 1 after reset.
C12_DayNumbers ==
    \A i \in 1..Len(drops) : drops[i].day = i

\* A history rebuilt after a reset (coastal is a number only then), with a
\* no-op tick behind it and two tick chains running.
C12_Witness ==
    /\ stats.coastal.kind = "number"
    /\ stats.landAttempts >= MaxAttempts
    /\ timers >= 2
    /\ Len(drops) = 2
    /\ drops[1].day = 1
    /\ drops[2].day = 2

\* s is a prefix of t.
IsPrefix(s, t) ==
    /\ Len(s) <= Len(t)
    /\ \A i \in 1..Len(s) : s[i] = t[i]

\* C13: every step other than reset() keeps the history as a prefix of the new
\* history: no Drop is removed, reordered or modified; only reset empties it.
C13_AppendOnly ==
    [][ /\ last'.op # "reset" => IsPrefix(drops, drops')
        /\ Len(drops') < Len(drops) => (last'.op = "reset" /\ drops' = <<>>) ]_vars

\* A start() after a pause appended a second Drop to the history.
C13_Witness ==
    /\ last.op = "start"
    /\ Ticked(last)
    /\ Len(drops) = 2
    /\ Len(last.events) = 1
    /\ last.events[1].drop = NewestDrop

\* The Drops of the history whose zone is COASTAL.
CoastalDrops == {i \in 1..Len(drops) : drops[i].locationType = "COASTAL"}

\* C14: waterCount is the number of Drops in the history and coastalCount the
\* number of COASTAL Drops in it, both numbers, from construction on.
C14_CountsMatchHistory ==
    /\ stats.water = Len(drops)
    /\ stats.coastal = JSNum(Cardinality(CoastalDrops))

\* C15: totalAttempts >= currentDay.
C15_AttemptsCoverDays == stats.totalAttempts >= currentDay

\* Every day of a full run committed at its first attempt.
C15_Witness ==
    /\ currentDay = totalDays
    /\ stats.totalAttempts = currentDay
    /\ stats.landAttempts = 0

\* C16: landAttempts + waterCount <= totalAttempts.
C16_AttemptsCoverOutcomes ==
    stats.landAttempts + stats.water <= stats.totalAttempts

\* Land hits, a no-op tick among them, and committed days, all counted.
C16_Witness ==
    /\ stats.landAttempts > MaxAttempts
    /\ stats.water = 2
    /\ stats.totalAttempts = stats.landAttempts + 2

\* C17: the statistics a consumer received with the notification for a day
\* are not changed by a later tick or operation of the driver.
C17_SnapshotImmutable ==
    [][ (/\ Len(last.events) = 1
         /\ last.events[1].kind = "onTick"
         /\ last.events[1].drop # NoDrop)
        => HeldStatsAfterStep = last.events[1].stats ]_vars

\* C18: once onFinish has been emitted, and until reset(), the driver is not
\* running with currentDay = totalDays, and start(), pause() and stale timers
\* change neither currentDay, history nor statistics, compute no tick and
\* emit nothing; reset() returns the driver to day 0, from where start() runs
\* again.
C18_FinishedIsTerminal ==
    [][ /\ finishCount' > 0 => (~isRunning' /\ currentDay' = totalDays)
        /\ (finishCount > 0 /\ last'.op # "reset") =>
              /\ UNCHANGED <<isRunning, currentDay, drops, stats, finishCount>>
              /\ ~Ticked(last')
              /\ last'.events = <<>>
        /\ (finishCount > 0 /\ last'.op = "reset") =>
              /\ finishCount' = 0
              /\ currentDay' = 0
              /\ drops' = <<>>
              /\ ~isRunning'
        /\ (last.op = "reset" /\ last'.op = "start") =>
              /\ isRunning'
              /\ Ticked(last')
              /\ currentDay' <= 1 ]_vars

\* start() called on a finished driver, a stale timer still pending.
C18_Witness ==
    /\ finishCount = 1
    /\ last.op = "start"
    /\ last.events = <<>>
    /\ ~isRunning
    /\ currentDay = totalDays
    /\ timers > 0

\* C19: a tick makes between 1 and 100 attempts; each attempt answered LAND
\* adds one to landAttempts and to totalAttempts and leaves currentDay alone;
\* the first attempt not answered LAND adds one to totalAttempts only,
\* advances currentDay by exactly one and ends the tick.
C19_AttemptsOfATick ==
    [][ Ticked(last') =>
          /\ last'.attempts \in 1..100
          /\ stats'.landAttempts = stats.landAttempts + last'.landHits
          /\ stats'.totalAttempts = stats.totalAttempts + last'.attempts
          /\ currentDay' \in {currentDay, currentDay + 1}
          /\ IF currentDay' = currentDay + 1
             THEN last'.attempts = last'.landHits + 1
             ELSE last'.attempts = last'.landHits /\ last'.landHits = 100 ]_vars

\* A tick found water at its 100th and last attempt.
C19_Witness ==
    /\ last.attempts = 100
    /\ last.landHits = 99
    /\ Len(last.events) = 1
    /\ last.events[1].currentDay = currentDay
    /\ currentDay > 0

\* C20: setSpeed maps speed 1..100 linearly onto the delay range 1..200 ms:
\* speed 100 gives 1 ms, speed 1 gives 200 ms, every delay lies in [1, 200]
\* and a higher speed gives a strictly lower delay.
C20_SpeedToDelay ==
    [][ last'.op = "setSpeed" =>
          /\ speedVal' = 100 => delay' = 1 * DelayScale
          /\ speedVal' = 1 => delay' = 200 * DelayScale
          /\ delay' >= 1 * DelayScale
          /\ delay' <= 200 * DelayScale
          /\ (last.op = "setSpeed" /\ speedVal' > speedVal) => delay' < delay ]_vars

\* C26: in every reachable state the rejected attempts and the committed
\* water drops add up to the attempts exactly:
\* stats.landAttempts + stats.water = stats.totalAttempts.
C26_AttemptsBalance ==
    stats.landAttempts + stats.water = stats.totalAttempts

\* C26 witness: a run with both rejected attempts and committed drops, after
\* a reset has already zeroed the counters once.
C26_Witness ==
    /\ stats.landAttempts > 0
    /\ stats.water > 1
    /\ stats.coastal.kind = "number"
    /\ C26_AttemptsBalance

\* C27: the day counter stays within 0..totalDays in every reachable state,
\* however many ticks are pending.
C27_DayInRange ==
    /\ 0 <= currentDay
    /\ currentDay <= totalDays

\* C27 witness: the running driver has reached the last day with more than
\* one tick still pending.
C27_Witness ==
    /\ isRunning
    /\ currentDay = totalDays
    /\ timers >= 2

\* C28: since the last reset (or construction) onFinish has been called at
\* most once, and every onFinish call sees currentDay = totalDays.
C28_FinishAtMostOnce ==
    /\ finishCount <= 1
    /\ finishCount = 1 => currentDay = totalDays
    /\ \A i \in 1..Len(last.events) :
          last.events[i].kind = "onFinish" =>
              last.events[i].currentDay = totalDays

\* C28 witness: onFinish has been called and a tick of a second chain is
\* still pending.
C28_Witness ==
    /\ finishCount = 1
    /\ timers > 0
    /\ last.op = "timer"
    /\ Len(last.events) = 1
    /\ last.events[1].kind = "onFinish"

\* C30: start() on a driver that is not running, with currentDay < totalDays
\* and a first attempt that is not LAND, returns with currentDay advanced by
\* one, one Drop appended, one onTick emitted and one more tick pending.
C30_StartTicksSynchronously ==
    [][(/\ last'.op = "start"
        /\ ~isRunning
        /\ currentDay < totalDays
        /\ last'.landHits = 0)
       => (/\ currentDay' = currentDay + 1
           /\ drops' = Append(drops, drops'[Len(drops')])
           /\ Len(last'.events) = 1
           /\ last'.events[1].kind = "onTick"
           /\ last'.events[1].drop = <<drops'[Len(drops')]>>
           /\ timers' = timers + 1
           /\ isRunning')]_vars

\* C30 witness: start() has just returned with the first day committed at
\* the first attempt.
C30_Witness ==
    /\ last.op = "start"
    /\ last.attempts = 1
    /\ last.landHits = 0
    /\ currentDay = 1
    /\ Len(drops) = 1
    /\ timers = 1

\* C21: the zone classifier returns LAND with distance 0 when the land flag
\* is set; otherwise it returns the distance it was given and COASTAL iff
\* d <= 1, SHELF iff 1 < d <= 100, FAR iff 100 < d <= 300, DEEP_OCEAN iff
\* d > 300, an infinite distance included.
C21_ZoneClassification ==
    (probe.fn = "getTerrainTypeWithDistance" /\ probe.returned) =>
        LET r == probe.result
            d == probe.distKm
        IN  IF probe.land
            THEN r = [type |-> "LAND", distanceKm |-> 0]
            ELSE /\ r.distanceKm = d
                 /\ r.type \in {"COASTAL", "SHELF", "FAR", "DEEP_OCEAN"}
                 /\ (r.type = "COASTAL") <=> (d <= 1)
                 /\ (r.type = "SHELF") <=> (1 < d /\ d <= 100)
                 /\ (r.type = "FAR") <=> (100 < d /\ d <= 300)
                 /\ (r.type = "DEEP_OCEAN") <=> (d > 300)
                 /\ (d = Infinity) => (r.type = "DEEP_OCEAN")

\* C21 witness: a point off land at exactly 300 km has been classified FAR.
C21_Witness ==
    /\ probe.fn = "getTerrainTypeWithDistance"
    /\ probe.returned
    /\ ~probe.land
    /\ probe.distKm = 300
    /\ probe.result = [type |-> "FAR", distanceKm |-> 300]

\* The ray-casting rule, stated edge by edge: the edge from vertex j to
\* vertex i is crossed when its endpoints lie on different sides of the query
\* latitude and it meets that latitude east of the query longitude.
EdgeCrossed(lon, lat, pi, pj) ==
    LET d == pj[2] - pi[2]
    IN  /\ (pi[2] > lat) # (pj[2] > lat)
        /\ (lon - pi[1]) * d * d < (pj[1] - pi[1]) * (lat - pi[2]) * d

CrossedEdges(lon, lat, ring) ==
    {i \in 1..Len(ring) :
        EdgeCrossed(lon, lat, ring[i],
                    ring[IF i = 1 THEN Len(ring) ELSE i - 1])}

InsideByParity(lon, lat, ring) ==
    Cardinality(CrossedEdges(lon, lat, ring)) % 2 = 1

\* C22: the land classifier answers LAND for every point south of -80,
\* whatever the polygon set; from -80 northwards it answers LAND iff the
\* point is inside at least one ring by parity, each ring on its own.
C22_LandClassifier ==
    (probe.fn = "isOnLandPolygon" /\ probe.returned) =>
        IF probe.lat < -80
        THEN probe.result
        ELSE probe.result <=>
                \E k \in 1..Len(probe.landPolygons) :
                    InsideByParity(probe.lon, probe.lat, probe.landPolygons[k])

\* C22 witness: a point south of -80 has been classified LAND with no ring
\* loaded.
C22_Witness ==
    /\ probe.fn = "isOnLandPolygon"
    /\ probe.returned
    /\ probe.lat < -80
    /\ probe.landPolygons = <<>>
    /\ probe.result

\* The geometry is empty or missing: no rings, coastline null or empty.
EmptyGeometryCall ==
    /\ probe.fn = "getTerrainTypeWithDistance"
    /\ probe.returned
    /\ probe.landPolygons = <<>>
    /\ probe.coastlineCoords \in {Null, Loaded(<<>>)}

\* C23 as stated: with empty or missing geometry no query point is LAND and
\* every distance is +infinity, so no sampled point is rejected.
C23_EmptyGeometryNeverLand ==
    EmptyGeometryCall =>
        /\ ~probe.land
        /\ probe.distKm = Infinity
        /\ probe.result.type # "LAND"

\* C23 amended: with empty or missing geometry every distance is +infinity
\* and the points from -80 northwards are DEEP_OCEAN at infinite distance;
\* the points south of -80 are still LAND.
C23_EmptyGeometryLandOnlySouthOf80 ==
    EmptyGeometryCall =>
        /\ probe.distKm = Infinity
        /\ probe.land <=> (probe.lat < -80)
        /\ probe.result =
             IF probe.lat < -80
             THEN [type |-> "LAND", distanceKm |-> 0]
             ELSE [type |-> "DEEP_OCEAN", distanceKm |-> Infinity]

\* C23 witness: with no coastline loaded and no ring, a point south of -80
\* has been classified LAND.
C23_Witness ==
    /\ EmptyGeometryCall
    /\ probe.coastlineCoords = Null
    /\ probe.lat = -85
    /\ probe.result.type = "LAND"

\* C24: the ray-casting test ends with the inside flag set iff an odd number
\* of edges is crossed; it divides once for each edge whose endpoints lie on
\* different sides of the query latitude and never by 0; for the square ring
\* (0,0),(0,10),(10,10),(10,0) the point (5,5) is inside, (50,50) outside.
C24_RayCasting ==
    (probe.fn = "isPointInPolygon" /\ probe.returned) =>
        LET ring == probe.polygon
            r == probe.result
            straddled ==
                {i \in 1..Len(ring) :
                    (ring[i][2] > probe.lat)
                      # (ring[IF i = 1 THEN Len(ring) ELSE i - 1][2]
                           > probe.lat)}
        IN  /\ r.inside <=> InsideByParity(probe.lon, probe.lat, ring)
            /\ Len(r.divisors) = Cardinality(straddled)
            /\ \A k \in 1..Len(r.divisors) : r.divisors[k] # 0
            /\ (ring = Square /\ probe.lon = 5 /\ probe.lat = 5) => r.inside
            /\ (ring = Square /\ probe.lon = 50 /\ probe.lat = 50)
                 => ~r.inside

\* C24 witness: (5,5) has been found inside the square ring, whose two
\* edges of equal latitude were skipped.
C24_Witness ==
    /\ probe.fn = "isPointInPolygon"
    /\ probe.returned
    /\ probe.polygon = Square
    /\ probe.lon = 5
    /\ probe.lat = 5
    /\ probe.result.inside
    /\ Len(probe.result.divisors) = 2

Abs(x) == IF x < 0 THEN -x ELSE x

\* C25: the temperature is 30 at latitude 0 and -2 at 90 and -90, the same
\* at lat and -lat, and does not rise as |lat| grows.  (Math.cos is taken as
\* the real cosine.)
C25_Temperature ==
    (probe.fn = "calculateTemperature" /\ probe.returned) =>
        /\ probe.lat1 = 0 => probe.temp1 = 30
        /\ probe.lat1 \in {-90, 90} => probe.temp1 = -2
        /\ probe.lat1 = -probe.lat2 => probe.temp1 = probe.temp2
        /\ Abs(probe.lat1) <= Abs(probe.lat2) => probe.temp1 >= probe.temp2

\* C25 witness: the temperatures at -90 and at 60 have been computed.
C25_Witness ==
    /\ probe.fn = "calculateTemperature"
    /\ probe.returned
    /\ probe.lat1 = -90
    /\ probe.lat2 = 60
    /\ probe.temp1 = -2
    /\ probe.temp2 = 14

\* C29: for a loaded stream of n points the distance estimator evaluates the
\* segments (stream[i], stream[min(i + 10, n - 1)]) for i = 0, 10, 20, ...
\* below n - 1, which are ceil((n - 1) / 10) segments, and returns the least
\* of their distances; it returns +infinity exactly when the stream is not
\* loaded or has fewer than 2 points.
C29_StridedSegments ==
    (probe.fn = "getDistanceToCoast" /\ probe.returned) =>
        LET stream == probe.coastlineCoords.coords
            n == Len(stream)
            isLoaded == probe.coastlineCoords.loaded
            segs == probe.result.segments
            starts == {i \in 0..(n - 2) : i % 10 = 0}
            dists == {probe.segDist[i \div 10] : i \in starts}
        IN  /\ ~isLoaded => segs = <<>>
            /\ Len(segs) = Cardinality(starts)
            /\ n >= 2 => Len(segs) = (n - 1 + 9) \div 10
            /\ \A k \in 1..Len(segs) :
                  LET i == (k - 1) * 10
                      j == IF i + 10 < n - 1 THEN i + 10 ELSE n - 1
                  IN  segs[k] = <<stream[i + 1], stream[j + 1]>>
            /\ (probe.result.minDist = Infinity) <=> (~isLoaded \/ n < 2)
            /\ n >= 2 =>
                  /\ probe.result.minDist \in dists
                  /\ \A d \in dists : probe.result.minDist <= d

\* C29 witness: a stream of 22 points has been scanned in three segments, the
\* last one shortened to end at the last point, and the least distance is
\* not that of the first segment.
C29_Witness ==
    /\ probe.fn = "getDistanceToCoast"
    /\ probe.returned
    /\ Len(probe.coastlineCoords.coords) = 22
    /\ Len(probe.result.segments) = 3
    /\ probe.result.segments[3] = << <<20, 0>>, <<21, 0>> >>
    /\ probe.segDist[0] = 301
    /\ probe.result.minDist = 1

====
